---- MODULE Spec2Model ----
(***************************************************************************)
(* Parallel proof-of-work nonce search (src/src/pow.cc) and its            *)
(* asynchronous Node binding (src/src/worker.cc).                          *)
(*                                                                         *)
(* u64 values.  A u64 value is represented by an integer code that keeps  *)
(* the order of the values:                                                *)
(*   - the candidates 0 .. TableSize - 1 are their own code;               *)
(*   - the top window 2^64 - d, d in 1..TopSize, has code TopBase - d;     *)
(*   - in between, the values are split into regions at the constants the  *)
(*     program compares with (1000, 2^31 - 1, 2^53 - 1, 2^63 - 1); a       *)
(*     counter in region j with residue r modulo pool_size has code        *)
(*     RegionBase(j) + r, and stands for the candidates of that residue    *)
(*     class in the region.                                                *)
(* Every max_nonce value of the model is the largest value of a region or *)
(* of the window, so i > max_nonce is decided exactly on codes.  Hash      *)
(* values of exact candidates are the real double SHA-512 values; the     *)
(* hash of a region candidate is not computed, and a region step may find *)
(* a candidate or not.                                                     *)
(***************************************************************************)
EXTENDS Integers, Naturals, Sequences, FiniteSets, TLC

\* ---- bounds of the model ----
MaxModelPool == 3

\* ---- program constants ----
MAX_POOL_SIZE == 1024
HASH_SIZE == 64

\* enum PowResult
RESULT_OK == 0
RESULT_OVERFLOW == -1
RESULT_ERROR == -2
RESULT_BAD_INPUT == -3
RESULT_NOT_READY == -4

\* ---- representation of u64 values ----
\* candidates 0 .. TableSize - 1 and the top window of TopSize values are
\* exact; the hash tables cover exactly these candidates
TableSize == 64
TopSize == 8
\* regions: 0 = [64, 1000], 1 = [1001, 2^31 - 1], 2 = [2^31, 2^53 - 1],
\* 3 = [2^53, 2^63 - 1], 4 = [2^63, 2^64 - TopSize - 1]
NumRegions == 5
RegionSpan == 10000
TopBase == 100000

RegionBase(j) == (j + 1) * RegionSpan
\* code of the largest value of region j
RegionTop(j) == RegionBase(j) + RegionSpan - 1
IsRegion(c) == c >= RegionSpan /\ c < (NumRegions + 1) * RegionSpan
RegionOf(c) == c \div RegionSpan - 1
TopCode(d) == TopBase - d
IsTop(c) == c >= TopBase - TopSize
IsExact(c) == c < TableSize \/ IsTop(c)

\* 1000, the max_nonce of the end-to-end scenario
E2EMaxNonce == RegionTop(0)
\* MAX_SAFE_INTEGER = 2^53 - 1 (worker.cc), the max_nonce of PowAsync
MAX_SAFE_INTEGER == RegionTop(2)
\* INT64_MAX = 2^63 - 1, the default max_nonce of pow()
INT64_MAX == RegionTop(3)
\* 2^64 - 1
U64_MAX == TopCode(1)

\* 2^64 mod p, as ((2^16 mod p)^4) mod p
Two64Mod(p) == ((2^16 % p) ^ 4) % p

\* i += pool_size on u64 (mod 2^64) for the counter of code c: exact on the
\* exact candidates, with the wrap 2^64 - d + p = p - d at the top; from the
\* last exact candidate of a class the counter enters region 0, from a
\* region the next one, and from region 4 the top window at the first value
\* 2^64 - d of the class.
TopEntry(p, r) ==
  CHOOSE d \in 1..TopSize :
     /\ (Two64Mod(p) - d) % p = r
     /\ \A e \in 1..TopSize : (Two64Mod(p) - e) % p = r => e <= d

Advance(c, p) ==
  IF c < TableSize
    THEN IF c + p < TableSize THEN c + p ELSE RegionBase(0) + (c % p)
  ELSE IF IsRegion(c)
    THEN IF RegionOf(c) < NumRegions - 1
           THEN c + RegionSpan
           ELSE TopCode(TopEntry(p, c - RegionBase(RegionOf(c))))
  ELSE IF c + p < TopBase THEN c + p ELSE c + p - TopBase

\* value mod p of the candidate of code c
Residue(c, p) ==
  IF c < TableSize THEN c % p
  ELSE IF IsRegion(c) THEN c - RegionBase(RegionOf(c))
  ELSE (Two64Mod(p) - (TopBase - c)) % p

\* u64 values compared by the program as tuples of four 16-bit limbs, most
\* significant first
ULe(a, b) ==
  \/ a[1] < b[1]
  \/ a[1] = b[1] /\ a[2] < b[2]
  \/ a[1] = b[1] /\ a[2] = b[2] /\ a[3] < b[3]
  \/ a[1] = b[1] /\ a[2] = b[2] /\ a[3] = b[3] /\ a[4] <= b[4]

\* ---- inputs ----
\* targets 0, 0x0FFFFFFFFFFFFFFF and 0xFFFFFFFFFFFFFFFF
TZero == <<0, 0, 0, 0>>
T0FFF == <<4095, 65535, 65535, 65535>>
TMax == <<65535, 65535, 65535, 65535>>
Targets == {TZero, T0FFF, TMax}
PoolSizes == {0} \cup (1..MaxModelPool) \cup {MAX_POOL_SIZE + 1}
Digests == {0, 1}
\* max_nonce 0 (pow() uses INT64_MAX), 1, 3 and 2^64 - 1
MaxNonceArgs == {0, 1, 3, U64_MAX}
Lengths == {HASH_SIZE, HASH_SIZE - 1}
Hosts == {"LE", "BE"}
Abis == {"LP64", "ILP32"}
\* pool_size as a JS number hi * 2^32 + lo passed to powAsync: the valid and
\* invalid sizes of pow(), and 2^32 + 1
JsPoolArgs == {[hi |-> 0, lo |-> p] : p \in PoolSizes} \cup {[hi |-> 1, lo |-> 1]}
\* the caller's *nonce before the call
CallerNonces == {0, 7}
E2EPool == 4
LongPool == 2
Workers == 0..((IF MaxModelPool > E2EPool THEN MaxModelPool ELSE E2EPool) - 1)
NoFail == -1
\* pow_args has not been initialised yet
NoArgs == <<>>
\* value of ret before pow() has returned (not a PowResult)
NoReturn == 1
\* the candidate encoder is not exercised by the search specifications
EncOff == [pc |-> "off", host |-> "LE", i |-> <<>>, dig |-> <<>>,
           msg |-> <<>>, trial |-> <<>>, derived |-> <<>>]
\* the PowAsync callback has not been called
NoCallback == [argc |-> 0]


(***************************************************************************)
(* Double SHA-512 of the candidates.  D is 64 zero bytes (digest 0) or 64  *)
(* bytes 0x03 (digest 1); entry HashIndex(c) of row d + 1 is for candidate *)
(* 0 .. 63 and then 2^64 - 1, ..., 2^64 - 8.                               *)
(*   HashLE: first 8 bytes, read big-endian, of                            *)
(*     SHA-512(SHA-512(be64(n) || D)): the derived value of the spec, and  *)
(*     the value pow_thread compares on a little-endian host.              *)
(*   HashBE: the value pow_thread compares on a big-endian host without a  *)
(*     system ntohll, whose fallback swaps the 32-bit halves: it hashes    *)
(*     be64(ntohll(n)) and compares ntohll of the value read big-endian.   *)
(***************************************************************************)
HashLE ==
  <<
   <<<<54655, 8350, 64171, 11013>>, <<8081, 59367, 40324, 48497>>, <<36723, 23000, 62627, 10174>>,
     <<13086, 28279, 52464, 20543>>, <<16474, 45232, 9611, 18026>>, <<1323, 24937, 29031, 42407>>,
     <<13828, 61793, 60093, 60100>>, <<25152, 54074, 45087, 10038>>, <<7061, 23479, 48818, 35269>>,
     <<14919, 56231, 48407, 17133>>, <<8909, 2884, 20761, 30288>>, <<19680, 57341, 22567, 25577>>,
     <<991, 54523, 64057, 11609>>, <<35810, 59388, 30591, 26697>>, <<53054, 53184, 8664, 41964>>,
     <<9737, 23656, 48972, 43121>>, <<8517, 34562, 33561, 2231>>, <<32858, 24099, 37930, 43555>>,
     <<2425, 64905, 41232, 30831>>, <<12277, 6600, 59947, 31240>>, <<15849, 47832, 55390, 21757>>,
     <<55267, 50211, 9574, 59120>>, <<56170, 52814, 1492, 8834>>, <<2824, 33689, 12249, 23325>>,
     <<51259, 62896, 9444, 24048>>, <<20425, 14196, 60198, 17107>>, <<59972, 47566, 22875, 41562>>,
     <<9598, 1067, 48245, 52251>>, <<35385, 22327, 21162, 33715>>, <<63716, 3041, 22593, 31803>>,
     <<24944, 12401, 1359, 58348>>, <<59273, 54683, 28522, 25161>>, <<10374, 1453, 62063, 18633>>,
     <<21987, 42048, 49533, 28387>>, <<61302, 44601, 34834, 60381>>, <<11705, 31287, 15995, 13348>>,
     <<7878, 13652, 15443, 23259>>, <<16186, 35110, 26637, 10601>>, <<4848, 37038, 22101, 55622>>,
     <<39780, 13251, 55304, 5204>>, <<11166, 1003, 44093, 24695>>, <<12170, 13109, 67, 58650>>,
     <<20131, 11427, 51881, 7855>>, <<49396, 15956, 40164, 45958>>, <<65160, 24011, 32707, 11041>>,
     <<1028, 26350, 51050, 37800>>, <<54855, 3384, 32975, 61611>>, <<13361, 27786, 40596, 2754>>,
     <<37346, 60590, 40347, 19929>>, <<36210, 37326, 57909, 50715>>, <<14672, 46185, 23323, 49236>>,
     <<59676, 21524, 35693, 27938>>, <<20898, 63447, 44368, 35226>>, <<48480, 57828, 15581, 43807>>,
     <<50103, 30171, 48028, 29631>>, <<11752, 62374, 34871, 22921>>, <<25506, 49716, 13025, 65441>>,
     <<50490, 28206, 38016, 39610>>, <<39075, 27005, 5116, 12746>>, <<1950, 48411, 47880, 11546>>,
     <<60182, 36147, 13843, 46930>>, <<54027, 64689, 42552, 35894>>, <<17652, 14972, 33600, 54508>>,
     <<32512, 39022, 35420, 29152>>, <<7812, 13173, 61063, 38586>>, <<25633, 15702, 60664, 28165>>,
     <<43915, 1142, 12672, 49559>>, <<33296, 32375, 21255, 52872>>, <<28344, 56282, 25758, 28863>>,
     <<61396, 25501, 50372, 48941>>, <<58525, 4086, 40886, 45260>>, <<6037, 6886, 31321, 61221>>>>,
   <<<<8259, 16657, 11781, 41795>>, <<40436, 20104, 34108, 34325>>, <<31164, 24504, 31232, 12849>>,
     <<9489, 13281, 55125, 61995>>, <<23858, 30311, 49411, 29188>>, <<30933, 23358, 25970, 31645>>,
     <<12407, 19632, 25984, 53234>>, <<51119, 16394, 52136, 53060>>, <<24446, 4064, 31762, 63620>>,
     <<46496, 33191, 18949, 4030>>, <<34975, 24235, 26749, 1906>>, <<39242, 20213, 2770, 48969>>,
     <<5850, 60727, 50981, 56298>>, <<46173, 35418, 20835, 27824>>, <<42399, 47196, 1227, 22944>>,
     <<13036, 30498, 10001, 53887>>, <<43610, 34019, 53720, 20207>>, <<37548, 2279, 22444, 9430>>,
     <<5155, 47195, 35484, 45421>>, <<56374, 16232, 5234, 16802>>, <<15200, 8518, 11789, 27612>>,
     <<48391, 50989, 50217, 59149>>, <<10282, 47695, 15218, 36856>>, <<8544, 3199, 12609, 41874>>,
     <<40164, 58854, 37786, 6239>>, <<20157, 14709, 10817, 14869>>, <<64142, 62310, 25347, 28577>>,
     <<57673, 50967, 13296, 52260>>, <<30963, 57815, 7873, 31010>>, <<62610, 39598, 25852, 30023>>,
     <<42680, 58252, 8364, 23688>>, <<37476, 17463, 10392, 628>>, <<39150, 25486, 37514, 12555>>,
     <<332, 27398, 41939, 17383>>, <<31530, 104, 53666, 24776>>, <<4285, 47556, 46904, 8349>>,
     <<23438, 21793, 33007, 58119>>, <<1862, 35004, 7881, 18661>>, <<8092, 12559, 53984, 31338>>,
     <<36957, 14873, 62601, 65305>>, <<54365, 57868, 64020, 42188>>, <<56333, 14601, 54300, 43896>>,
     <<31284, 24735, 40826, 61094>>, <<56909, 49720, 52831, 31836>>, <<11471, 38949, 52606, 13783>>,
     <<7963, 57188, 62432, 21147>>, <<5049, 43833, 62287, 22947>>, <<41389, 59209, 10029, 61039>>,
     <<30256, 57229, 26005, 42948>>, <<48659, 53459, 7983, 36811>>, <<59687, 56365, 4474, 25032>>,
     <<27168, 1135, 54821, 54540>>, <<57728, 20409, 13841, 20197>>, <<65261, 5139, 39793, 29280>>,
     <<12560, 13718, 43840, 31361>>, <<57529, 64044, 23821, 19453>>, <<61141, 31498, 17835, 41998>>,
     <<26446, 60489, 28779, 12502>>, <<39091, 44118, 24033, 43504>>, <<2029, 28213, 50736, 22269>>,
     <<10263, 62591, 29990, 34832>>, <<31511, 21314, 48095, 370>>, <<56621, 4271, 17503, 40317>>,
     <<28778, 51018, 21104, 55025>>, <<29333, 45728, 44461, 64276>>, <<25369, 6911, 2396, 53924>>,
     <<45300, 57512, 37351, 4384>>, <<53483, 57528, 56868, 50857>>, <<12210, 41993, 6917, 18040>>,
     <<49370, 42570, 22688, 33069>>, <<10490, 62119, 26486, 19403>>, <<14599, 27245, 29610, 25618>>>>
  >>

HashBE ==
  <<
   <<<<64171, 11013, 54655, 8350>>, <<3173, 45938, 23182, 41439>>, <<20886, 6683, 6696, 46512>>,
     <<37574, 41609, 46389, 8081>>, <<8925, 42934, 56785, 14953>>, <<46234, 42608, 23569, 48693>>,
     <<40686, 25202, 63430, 40622>>, <<61356, 24770, 35045, 1523>>, <<62888, 17259, 55989, 26757>>,
     <<44000, 39077, 62932, 35402>>, <<39077, 19720, 22667, 32723>>, <<56150, 23594, 4584, 51488>>,
     <<19899, 20513, 33235, 23242>>, <<43337, 29122, 10829, 54798>>, <<55125, 54688, 61500, 44788>>,
     <<29142, 59999, 42805, 49666>>, <<2958, 8334, 50078, 17556>>, <<61135, 49183, 21085, 12576>>,
     <<50660, 22731, 5173, 26464>>, <<62567, 52046, 48682, 63278>>, <<2344, 24644, 43942, 24592>>,
     <<25584, 47246, 20126, 13625>>, <<43153, 51568, 34993, 12165>>, <<32585, 759, 47842, 22347>>,
     <<8318, 22763, 30754, 24492>>, <<10129, 65484, 45114, 65399>>, <<26354, 6003, 59995, 21980>>,
     <<56639, 8210, 41858, 23717>>, <<54783, 55730, 41184, 25910>>, <<58555, 4742, 15273, 22478>>,
     <<30961, 63719, 60180, 4776>>, <<59227, 29031, 45183, 61635>>, <<33095, 26304, 41403, 61777>>,
     <<63674, 28858, 2942, 60417>>, <<65387, 10753, 59082, 54896>>, <<40506, 10751, 39843, 24163>>,
     <<26588, 35095, 32670, 27348>>, <<27670, 42244, 64026, 34700>>, <<28247, 36669, 21077, 11973>>,
     <<28454, 38975, 33456, 31401>>, <<10563, 53391, 10737, 43640>>, <<32717, 60794, 50206, 51932>>,
     <<28154, 49978, 36567, 28109>>, <<58570, 6447, 21626, 12086>>, <<34476, 20433, 27235, 6053>>,
     <<20831, 48727, 47234, 44220>>, <<54556, 51709, 46273, 29888>>, <<59963, 37148, 56286, 64293>>,
     <<33720, 45639, 42601, 47073>>, <<2485, 46513, 59174, 28830>>, <<44685, 46606, 10176, 32668>>,
     <<61114, 45887, 8875, 62107>>, <<62117, 48991, 1971, 22110>>, <<16272, 37587, 57923, 17331>>,
     <<6330, 17844, 53885, 32389>>, <<57297, 36309, 9792, 1392>>, <<8120, 44648, 36101, 44842>>,
     <<42462, 60980, 3315, 33628>>, <<30090, 33898, 6243, 39004>>, <<51711, 55978, 41252, 14763>>,
     <<3711, 54400, 27989, 13236>>, <<25381, 26057, 37557, 620>>, <<11501, 3190, 42784, 40314>>,
     <<4417, 31259, 56762, 5751>>, <<61063, 38586, 7812, 13173>>, <<8433, 15479, 38605, 62289>>,
     <<36962, 62454, 33093, 16373>>, <<14701, 43484, 53978, 26865>>, <<2527, 43889, 31936, 55577>>,
     <<37938, 11691, 30329, 50879>>, <<56470, 41460, 61613, 39506>>, <<3703, 2566, 14309, 19928>>>>,
   <<<<11781, 41795, 8259, 16657>>, <<50210, 23141, 63504, 887>>, <<64112, 29230, 26279, 6792>>,
     <<3355, 7247, 34240, 15405>>, <<27355, 27777, 5040, 60426>>, <<27228, 2599, 57595, 33169>>,
     <<14911, 56662, 50924, 37093>>, <<42718, 61358, 25128, 19603>>, <<50353, 32601, 29639, 49030>>,
     <<11528, 41995, 10051, 25452>>, <<26952, 32342, 64375, 3842>>, <<17436, 65526, 9154, 20088>>,
     <<55685, 42524, 6878, 4824>>, <<27778, 54741, 6653, 52918>>, <<53191, 57547, 20868, 19103>>,
     <<40766, 18236, 23245, 4726>>, <<1165, 36183, 36826, 46193>>, <<64533, 30707, 40436, 60810>>,
     <<40219, 25524, 10663, 7284>>, <<15037, 4245, 40661, 33844>>, <<33169, 44982, 9287, 6027>>,
     <<27292, 9191, 22648, 45846>>, <<36325, 27415, 63340, 16415>>, <<13031, 18608, 3479, 40930>>,
     <<42849, 60460, 43071, 14898>>, <<36631, 10468, 45617, 18043>>, <<59959, 59941, 8752, 2060>>,
     <<41121, 14747, 21614, 13405>>, <<19534, 1401, 27471, 25208>>, <<20956, 2707, 14335, 39182>>,
     <<36743, 13762, 6971, 32947>>, <<60265, 61582, 1936, 62684>>, <<17587, 35656, 46158, 12462>>,
     <<61001, 20585, 18915, 14091>>, <<2020, 27835, 32217, 31042>>, <<4389, 59205, 55299, 27206>>,
     <<61162, 55030, 61153, 30626>>, <<49093, 3951, 1723, 47518>>, <<3629, 21484, 4852, 46029>>,
     <<1900, 22446, 43337, 8941>>, <<46675, 16906, 55077, 11498>>, <<34158, 19132, 53844, 47135>>,
     <<25247, 58827, 61609, 15004>>, <<22222, 30689, 30795, 55668>>, <<6598, 42233, 46204, 46591>>,
     <<63560, 9263, 24750, 5003>>, <<14868, 63489, 45043, 40637>>, <<54133, 32338, 26534, 53947>>,
     <<1278, 19471, 20382, 32771>>, <<49507, 19418, 20449, 17372>>, <<12771, 36938, 8466, 41526>>,
     <<18675, 55354, 61050, 48302>>, <<52503, 20452, 14750, 47258>>, <<53935, 61304, 56423, 26422>>,
     <<8338, 14341, 26933, 729>>, <<29662, 8650, 63925, 35093>>, <<57510, 1573, 63358, 64644>>,
     <<46107, 47515, 18533, 61991>>, <<28484, 41234, 2261, 32403>>, <<19190, 59830, 57653, 32282>>,
     <<41941, 10426, 10407, 31500>>, <<34878, 40529, 14426, 48601>>, <<51346, 46194, 52187, 52976>>,
     <<31971, 23373, 42452, 2087>>, <<44461, 64276, 29333, 45728>>, <<54692, 27205, 39963, 45076>>,
     <<54465, 13730, 57265, 21161>>, <<40298, 694, 11777, 44083>>, <<46710, 13263, 42124, 22146>>,
     <<31724, 40764, 5813, 48501>>, <<55594, 63420, 53748, 28613>>, <<16127, 30604, 10337, 26350>>>>
  >>
HashIndex(c) == IF c < TableSize THEN c + 1 ELSE TableSize + (TopBase - c)

\* The derived value of the spec for an exact candidate
DerivedValue(c, d) == HashLE[d + 1][HashIndex(c)]

\* the value ntohll( *be_trial) pow_thread compares on host h
CodeValue(h, c, d) ==
  IF h = "LE" THEN HashLE[d + 1][HashIndex(c)] ELSE HashBE[d + 1][HashIndex(c)]

\* ntohll( *be_trial) <= target
Satisfies(v, t) == ULe(v, t)

(***************************************************************************)
(* Outcomes of pow_thread's test for the candidate(s) of code c on host h  *)
(* against pow_args.target at: the test itself for an exact candidate; for *)
(* a region, found or not (only found when every value passes).           *)
(***************************************************************************)
Passes(h, at, c, d) ==
  IF IsExact(c) THEN {Satisfies(CodeValue(h, c, d), at)}
  ELSE IF at = TMax THEN {TRUE}
  ELSE {TRUE, FALSE}

VARIABLES
  entry,        \* "pow" (synchronous call) or "powAsync" (binding)
  poolSize, target, digest, maxNonceArg, length,
  pc,           \* position of the calling thread
  result,       \* pow_args.result
  nonceShared,  \* pow_args.nonce
  spawnIdx,     \* loop variable i of pow()
  failedAt,     \* index j whose pthread_create failed, or NoFail
  wpc,          \* worker positions
  wi,           \* worker counters i
  joined,       \* workers joined by pow()
  ret,          \* value returned by pow()
  outNonce,     \* caller's *nonce
  thrown,       \* error thrown by PowAsync
  setLog,       \* history of set_result calls
  postHash,     \* hashes done by each worker after result became terminal
  enc,          \* candidate encoder run (byte-level, see EncodeCandidate)
  cbCount,      \* number of invocations of the PowAsync callback
  cbArg,        \* arguments of the last callback invocation
  host,         \* byte order of the host: "LE" or "BE"
  abi,          \* data model of the build: "LP64" or "ILP32" (size_t width)
  poolArg,      \* pool_size argument as given by the caller
  argTarget     \* pow_args.target (size_t), NoArgs before pow() builds it

vars == <<entry, poolSize, target, digest, maxNonceArg, length, pc, result,
          nonceShared, spawnIdx, failedAt, wpc, wi, joined, ret, outNonce,
          thrown, setLog, postHash, enc, cbCount, cbArg, host, abi, poolArg, argTarget>>

MaxNonceEffPlusOne == IF maxNonceArg = 0 THEN INT64_MAX ELSE maxNonceArg + 1

\* pow_args.max_nonce = max_nonce ? max_nonce : INT64_MAX
MaxNonceEff == IF maxNonceArg = 0 THEN INT64_MAX ELSE maxNonceArg

PoolValid(p) == ~(p < 1 \/ p > MAX_POOL_SIZE)

(***************************************************************************)
(* Combinations of inputs drawn by Init.  A search in which no candidate   *)
(* passes runs through every exact candidate of its class, so those are    *)
(* drawn with few workers: max_nonce 2^64 - 1 with target 0 (which no      *)
(* exact candidate meets) and pool_size 1, or with target                  *)
(* 0x0FFFFFFFFFFFFFFF and pool_size 3, where on a little-endian host with  *)
(* digest 0 only worker 1 (candidates 1, 4, 7, ...) meets no exact         *)
(* candidate (the others stop at 12 and 5); target 0 otherwise with        *)
(* max_nonce 1; an ILP32 build (whose narrowed target no exact candidate  *)
(* meets) with max_nonce 1 or 3; PowAsync (max_nonce 2^53 - 1) on LP64     *)
(* with a target some exact candidate meets.  SpecE2E runs PowAsync on     *)
(* ILP32.  The long searches (max_nonce INT64_MAX or 2^53 - 1), in which   *)
(* a worker that read a stale result runs on to its own candidate, are     *)
(* drawn with at most LongPool workers.                                    *)
(***************************************************************************)
SearchInput ==
  /\ maxNonceArg = U64_MAX =>
        (/\ digest = 0
         /\ host = "LE"
         /\ abi = "LP64"
         /\ \/ target = TZero /\ poolArg.lo \in {0, 1, MAX_POOL_SIZE + 1}
            \/ target = T0FFF /\ poolArg.lo = 3)
  /\ target = TZero => maxNonceArg \in {1, U64_MAX}
  /\ abi = "ILP32" => maxNonceArg \in {1, 3}
  /\ entry = "powAsync" => target # TZero
  /\ (maxNonceArg \in {0, MAX_SAFE_INTEGER} /\ PoolValid(poolArg.lo)) =>
        poolArg.lo <= LongPool

Init ==
  /\ entry \in {"pow", "powAsync"}
  /\ poolArg \in (IF entry = "pow" THEN {[hi |-> 0, lo |-> p] : p \in PoolSizes}
                                  ELSE JsPoolArgs)
  \* pow() receives pool_size directly; PowAsync converts it (AsyncValidate)
  /\ poolSize = (IF entry = "pow" THEN poolArg.lo ELSE 0)
  /\ host \in Hosts
  /\ abi \in Abis
  /\ argTarget = NoArgs
  /\ target \in Targets
  /\ digest \in Digests
  /\ maxNonceArg \in (IF entry = "pow" THEN MaxNonceArgs ELSE {MAX_SAFE_INTEGER})
  /\ SearchInput
  /\ length \in (IF entry = "pow" THEN {HASH_SIZE} ELSE Lengths)
  /\ pc = IF entry = "pow" THEN "pow" ELSE "async"
  /\ result = RESULT_NOT_READY
  /\ nonceShared = 0
  /\ spawnIdx = 0
  /\ failedAt = NoFail
  /\ wpc = [k \in Workers |-> "none"]
  /\ wi = [k \in Workers |-> 0]
  /\ joined = {}
  /\ ret = NoReturn
  /\ outNonce \in CallerNonces
  /\ thrown = "none"
  /\ setLog = <<>>
  /\ postHash = [k \in Workers |-> 0]
  /\ enc = EncOff
  /\ cbCount = 0
  /\ cbArg = NoCallback

SetResultNoCheck(res, n) ==
  /\ result' = res
  /\ nonceShared' = n
  /\ setLog' = Append(setLog, [res |-> res, nonce |-> n,
                               took |-> result = RESULT_NOT_READY])

\* set_result: under the mutex, write only while result is NOT_READY
SetResult(res, n) ==
  /\ IF result = RESULT_NOT_READY
       THEN /\ result' = res
            /\ nonceShared' = n
       ELSE UNCHANGED <<result, nonceShared>>
  /\ setLog' = Append(setLog, [res |-> res, nonce |-> n,
                               took |-> result = RESULT_NOT_READY])

\* args[0]->Uint32Value(): ToUint32 of the JS number, i.e. modulo 2^32
Uint32Value(a) == a.lo

\* PowAsync: pool_size = args[0]->Uint32Value(); argument validation before
\* queueing the worker
AsyncValidate ==
  /\ pc = "async"
  /\ poolSize' = Uint32Value(poolArg)
  /\ IF ~PoolValid(Uint32Value(poolArg)) \/ length # HASH_SIZE
       THEN /\ thrown' = "Bad input"
            /\ pc' = "done"
       ELSE /\ pc' = "alloc"
            /\ UNCHANGED thrown
  /\ UNCHANGED <<entry, target, digest, maxNonceArg, length, result,
                 nonceShared, spawnIdx, failedAt, wpc, wi, joined, ret,
                 outNonce, setLog, postHash,
                 enc, cbCount, cbArg,
                 host, abi, poolArg, argTarget>>

\* PowAsync: malloc of the digest copy; on success the PowWorker is queued
\* and its Execute() calls pow(pool_size, target, initial_hash,
\* MAX_SAFE_INTEGER, &nonce)
AsyncAlloc ==
  /\ pc = "alloc"
  /\ \/ /\ thrown' = "Internal error"
        /\ pc' = "done"
     \/ /\ pc' = "pow"
        /\ UNCHANGED thrown
  /\ UNCHANGED <<entry, poolSize, target, digest, maxNonceArg, length, result,
                 nonceShared, spawnIdx, failedAt, wpc, wi, joined, ret,
                 outNonce, setLog, postHash, enc, cbCount, cbArg,
                 host, abi, poolArg, argTarget>>

\* conversion of the u64 target to a 32-bit size_t: its low 32 bits
Narrow32(t) == <<0, 0, t[3], t[4]>>

\* pow(): pool_size validation and initialisation of pow_args
PowValidate ==
  /\ pc = "pow"
  /\ IF ~PoolValid(poolSize)
       THEN /\ ret' = RESULT_BAD_INPUT
            /\ pc' = "done"
            /\ UNCHANGED argTarget
       ELSE /\ pc' = "spawn"
            \* const size_t target = target (narrowed on ILP32)
            /\ argTarget' = (IF abi = "LP64" THEN target ELSE Narrow32(target))
            /\ UNCHANGED ret
  /\ UNCHANGED <<entry, poolSize, target, digest, maxNonceArg, length, result,
                 nonceShared, spawnIdx, failedAt, wpc, wi, joined, outNonce,
                 thrown, setLog, postHash,
                 enc, cbCount, cbArg,
                 host, abi, poolArg>>

\* pow(): pthread_create(&threads[i], ...) succeeds for worker i
SpawnOK ==
  /\ pc = "spawn"
  /\ spawnIdx < poolSize
  /\ wpc' = [wpc EXCEPT ![spawnIdx] = "poll"]
  /\ wi' = [wi EXCEPT ![spawnIdx] = spawnIdx]
  /\ spawnIdx' = spawnIdx + 1
  /\ UNCHANGED <<entry, poolSize, target, digest, maxNonceArg, length, pc,
                 result, nonceShared, failedAt, joined, ret, outNonce, thrown,
                 setLog, postHash,
                 enc, cbCount, cbArg,
                 host, abi, poolArg, argTarget>>

\* pow(): the spawn loop ends when i == pool_size
SpawnLoopExit ==
  /\ pc = "spawn"
  /\ ~(spawnIdx < poolSize)
  /\ pc' = "join"
  /\ UNCHANGED <<entry, poolSize, target, digest, maxNonceArg, length, result,
                 nonceShared, spawnIdx, failedAt, wpc, wi, joined, ret,
                 outNonce, thrown, setLog, postHash,
                 enc, cbCount, cbArg,
                 host, abi, poolArg, argTarget>>

SpawnFailNoSet ==
  /\ pc = "spawn"
  /\ spawnIdx < poolSize
  /\ failedAt' = spawnIdx
  /\ pc' = "join"
  /\ UNCHANGED <<entry, poolSize, target, digest, maxNonceArg, length, result,
                 nonceShared, spawnIdx, wpc, wi, joined, ret, outNonce, thrown,
                 setLog, postHash,
                 enc, cbCount, cbArg,
                 host, abi, poolArg, argTarget>>

SpawnFailContinue ==
  /\ pc = "spawn"
  /\ spawnIdx < poolSize
  /\ SetResult(RESULT_ERROR, 0)
  /\ failedAt' = spawnIdx
  /\ spawnIdx' = spawnIdx + 1
  /\ UNCHANGED <<entry, poolSize, target, digest, maxNonceArg, length, pc,
                 wpc, wi, joined, ret, outNonce, thrown, postHash,
                 enc, cbCount, cbArg,
                 host, abi, poolArg, argTarget>>

\* pow(): pthread_create fails for worker i: set_result(RESULT_ERROR); break
SpawnFail ==
  /\ pc = "spawn"
  /\ spawnIdx < poolSize
  /\ SetResult(RESULT_ERROR, 0)
  /\ failedAt' = spawnIdx
  /\ pc' = "join"
  /\ UNCHANGED <<entry, poolSize, target, digest, maxNonceArg, length,
                 spawnIdx, wpc, wi, joined, ret, outNonce, thrown, postHash,
                 enc, cbCount, cbArg,
                 host, abi, poolArg, argTarget>>

JoinNoWait ==
  /\ pc = "join"
  /\ spawnIdx > 0
  /\ spawnIdx' = spawnIdx - 1
  /\ joined' = joined \cup {spawnIdx - 1}
  /\ UNCHANGED <<entry, poolSize, target, digest, maxNonceArg, length, pc,
                 result, nonceShared, failedAt, wpc, wi, ret, outNonce, thrown,
                 setLog, postHash,
                 enc, cbCount, cbArg,
                 host, abi, poolArg, argTarget>>

\* pow(): while (i--) pthread_join(threads[i], NULL)
Join ==
  /\ pc = "join"
  /\ spawnIdx > 0
  /\ wpc[spawnIdx - 1] = "done"
  /\ spawnIdx' = spawnIdx - 1
  /\ joined' = joined \cup {spawnIdx - 1}
  /\ UNCHANGED <<entry, poolSize, target, digest, maxNonceArg, length, pc,
                 result, nonceShared, failedAt, wpc, wi, ret, outNonce, thrown,
                 setLog, postHash,
                 enc, cbCount, cbArg,
                 host, abi, poolArg, argTarget>>

FinishAlwaysCopy ==
  /\ pc = "join"
  /\ spawnIdx = 0
  /\ ret' = result
  /\ outNonce' = nonceShared
  /\ pc' = IF entry = "powAsync" THEN "callback" ELSE "done"
  /\ UNCHANGED <<entry, poolSize, target, digest, maxNonceArg, length, result,
                 nonceShared, spawnIdx, failedAt, wpc, wi, joined, thrown,
                 setLog, postHash, enc, cbCount, cbArg,
                 host, abi, poolArg, argTarget>>

\* pow(): after the joins, copy out the nonce on RESULT_OK and return result
Finish ==
  /\ pc = "join"
  /\ spawnIdx = 0
  /\ ret' = result
  /\ outNonce' = IF result = RESULT_OK THEN nonceShared ELSE outNonce
  /\ pc' = IF entry = "powAsync" THEN "callback" ELSE "done"
  /\ UNCHANGED <<entry, poolSize, target, digest, maxNonceArg, length, result,
                 nonceShared, spawnIdx, failedAt, wpc, wi, joined, thrown,
                 setLog, postHash,
                 enc, cbCount, cbArg,
                 host, abi, poolArg, argTarget>>

\* NanNew<Integer>(nonce) takes an int32_t: the u64 nonce keeps its low 32
\* bits, read as two's complement.  Nonces below 2^31 (exact candidates and
\* regions 0 and 1) are unchanged; 2^64 - d becomes -d; a nonce of region 2
\* or above becomes an int32 value, which differs from the nonce, coded -c.
ToInt32(c) ==
  IF c < TableSize THEN c
  ELSE IF IsRegion(c) THEN (IF RegionOf(c) <= 1 THEN c ELSE -c)
  ELSE -(TopBase - c)

\* PowWorker::HandleOKCallback: the error message or (null, (int32_t)nonce)
CallbackArgs(err, n) ==
  IF err # 0
    THEN [argc |-> 1,
          msg |-> IF err = -1 THEN "Max safe integer overflow"
                              ELSE "Internal error"]
    ELSE [argc |-> 2, nonce |-> ToInt32(n)]

\* PowWorker::HandleOKCallback runs on the event loop after Execute()
Callback ==
  /\ pc = "callback"
  /\ cbCount' = cbCount + 1
  /\ cbArg' = CallbackArgs(ret, outNonce)
  /\ pc' = "done"
  /\ UNCHANGED <<entry, poolSize, target, digest, maxNonceArg, length, result,
                 nonceShared, spawnIdx, failedAt, wpc, wi, joined, ret,
                 outNonce, thrown, setLog, postHash, enc,
                 host, abi, poolArg, argTarget>>

\* pow_thread: loop condition while (pow_args->result == RESULT_NOT_READY)
Poll(k) ==
  /\ wpc[k] = "poll"
  \* The read of pow_args->result is not synchronised with set_result of
  \* other workers (a data race): once the result is terminal the load may
  \* still return the stale RESULT_NOT_READY, on any iteration (the compiler
  \* may keep the value in a register across the loop).
  /\ wpc' \in {[wpc EXCEPT ![k] = IF r = RESULT_NOT_READY THEN "body" ELSE "done"] :
                r \in {result, RESULT_NOT_READY}}
  /\ UNCHANGED <<entry, poolSize, target, digest, maxNonceArg, length, pc,
                 result, nonceShared, spawnIdx, failedAt, wi, joined, ret,
                 outNonce, thrown, setLog, postHash,
                 enc, cbCount, cbArg,
                 host, abi, poolArg, argTarget>>

\* pow_thread: one loop body: overflow check, double hash, compare, advance
Body(k) ==
  /\ wpc[k] = "body"
  /\ IF wi[k] > MaxNonceEff
       THEN /\ SetResult(RESULT_OVERFLOW, 0)
            /\ wpc' = [wpc EXCEPT ![k] = "done"]
            /\ UNCHANGED <<wi, postHash>>
       ELSE /\ postHash' = [postHash EXCEPT ![k] =
                  IF result # RESULT_NOT_READY /\ postHash[k] < 2
                    THEN postHash[k] + 1 ELSE postHash[k]]
            /\ \E found \in Passes(host, argTarget, wi[k], digest) :
                 IF found
                   THEN /\ SetResult(RESULT_OK, wi[k])
                        /\ wpc' = [wpc EXCEPT ![k] = "done"]
                        /\ UNCHANGED wi
                   ELSE /\ wi' = [wi EXCEPT ![k] = Advance(wi[k], poolSize)]
                        /\ wpc' = [wpc EXCEPT ![k] = "poll"]
                        /\ UNCHANGED <<result, nonceShared, setLog>>
  /\ UNCHANGED <<entry, poolSize, target, digest, maxNonceArg, length, pc,
                 spawnIdx, failedAt, joined, ret, outNonce, thrown, enc,
                 cbCount, cbArg,
                 host, abi, poolArg, argTarget>>

Next ==
  \/ AsyncValidate
  \/ AsyncAlloc
  \/ PowValidate
  \/ SpawnOK
  \/ SpawnFail
  \/ SpawnLoopExit
  \/ Join
  \/ Finish
  \/ Callback
  \/ \E k \in Workers : Poll(k)
  \/ \E k \in Workers : Body(k)

Spec == Init /\ [][Next]_vars

\* Every thread runs: the workers and the calling thread are weakly fair.
\* The caller's initial *nonce does not influence scheduling; fix it.
InitLive == Init /\ outNonce = 0

FairSpec ==
  /\ InitLive /\ [][Next]_vars
  /\ WF_vars(AsyncValidate)
  /\ WF_vars(AsyncAlloc)
  /\ WF_vars(Callback)
  /\ WF_vars(PowValidate)
  /\ WF_vars(SpawnOK \/ SpawnFail)
  /\ WF_vars(SpawnLoopExit)
  /\ WF_vars(Join)
  /\ WF_vars(Finish)
  /\ \A k \in Workers : WF_vars(Poll(k)) /\ WF_vars(Body(k))

\* The end-to-end scenario: 64 zero bytes (digest 0), maximal target,
\* pool_size 4, max_nonce 1000, on an LP64 build.  (On ILP32 the four
\* workers run through every exact candidate, none of which meets the
\* narrowed target; those runs are drawn in Init with fewer workers.)
InitE2E ==
  /\ entry \in {"pow", "powAsync"}
  /\ poolArg = [hi |-> 0, lo |-> E2EPool]
  /\ poolSize = (IF entry = "pow" THEN E2EPool ELSE 0)
  /\ host \in Hosts
  /\ abi = "LP64"
  /\ argTarget = NoArgs
  /\ target = TMax
  /\ digest = 0
  /\ maxNonceArg = (IF entry = "pow" THEN E2EMaxNonce ELSE MAX_SAFE_INTEGER)
  /\ length \in (IF entry = "pow" THEN {HASH_SIZE} ELSE Lengths)
  /\ pc = IF entry = "pow" THEN "pow" ELSE "async"
  /\ result = RESULT_NOT_READY
  /\ nonceShared = 0
  /\ spawnIdx = 0
  /\ failedAt = NoFail
  /\ wpc = [k \in Workers |-> "none"]
  /\ wi = [k \in Workers |-> 0]
  /\ joined = {}
  /\ ret = NoReturn
  /\ outNonce \in CallerNonces
  /\ thrown = "none"
  /\ setLog = <<>>
  /\ postHash = [k \in Workers |-> 0]
  /\ enc = EncOff
  /\ cbCount = 0
  /\ cbArg = NoCallback

SpecE2E == InitE2E /\ [][Next]_vars
(***************************************************************************)
(* Candidate encoder at byte level.  A u64 value is the tuple of its 8     *)
(* bytes, most significant first; a host stores a value to memory in its   *)
(* own byte order ("LE" or "BE").                                          *)
(***************************************************************************)
Reverse(b) == [j \in 1..Len(b) |-> b[Len(b) - j + 1]]

\* *(uint64_t *)p = v and reading *(uint64_t *)p, on a host of that order
HostStore(h, v) == IF h = "LE" THEN Reverse(v) ELSE v
HostLoad(h, b) == IF h = "LE" THEN Reverse(b) ELSE b

\* ntohl: identity on big-endian hosts, byte swap on little-endian hosts
Ntohl(h, x) == IF h = "LE" THEN Reverse(x) ELSE x

\* (unsigned int)((x << 32) >> 32) and (unsigned int)(x >> 32)
Low32(x) == SubSeq(x, 5, 8)
High32(x) == SubSeq(x, 1, 4)

\* ntohll(x) = ((uint64_t)ntohl(low32(x)) << 32) | ntohl(high32(x))
Ntohll(h, x) == Ntohl(h, Low32(x)) \o Ntohl(h, High32(x))

ZeroBytes(n) == [j \in 1..n |-> 0]
\* 8-byte values: zero and every value with a single byte set
Words == {ZeroBytes(8)} \cup {[j \in 1..8 |-> IF j = p THEN 1 ELSE 0] : p \in 1..8}
\* input digests: 64 zero bytes, and one with its first byte set
DigestBytes == {ZeroBytes(HASH_SIZE),
                [j \in 1..HASH_SIZE |-> IF j = 1 THEN 1 ELSE 0]}

\* pow_thread: memcpy the digest after the nonce, *be_nonce = ntohll(i)
EncodeCandidate ==
  /\ enc.pc = "ready"
  /\ enc' = [enc EXCEPT !.pc = "encoded",
                        !.msg = HostStore(enc.host, Ntohll(enc.host, enc.i))
                                \o enc.dig]
  /\ UNCHANGED <<entry, poolSize, target, digest, maxNonceArg, length, pc,
                 result, nonceShared, spawnIdx, failedAt, wpc, wi, joined, ret,
                 outNonce, thrown, setLog, postHash, cbCount, cbArg,
                 host, abi, poolArg, argTarget>>

\* pow_thread: ntohll( *be_trial) on the first 8 bytes of the final digest
DeriveTrial ==
  /\ enc.pc = "encoded"
  /\ enc' = [enc EXCEPT !.pc = "done",
                        !.derived = Ntohll(enc.host, HostLoad(enc.host, enc.trial))]
  /\ UNCHANGED <<entry, poolSize, target, digest, maxNonceArg, length, pc,
                 result, nonceShared, spawnIdx, failedAt, wpc, wi, joined, ret,
                 outNonce, thrown, setLog, postHash, cbCount, cbArg,
                 host, abi, poolArg, argTarget>>

InitEnc ==
  /\ entry = "pow"
  /\ poolSize = 1
  /\ poolArg = [hi |-> 0, lo |-> 1]
  /\ host = "LE"
  /\ abi = "LP64"
  /\ argTarget = NoArgs
  /\ target = 0
  /\ digest = 0
  /\ maxNonceArg = 0
  /\ length = HASH_SIZE
  /\ pc = "pow"
  /\ result = RESULT_NOT_READY
  /\ nonceShared = 0
  /\ spawnIdx = 0
  /\ failedAt = NoFail
  /\ wpc = [k \in Workers |-> "none"]
  /\ wi = [k \in Workers |-> 0]
  /\ joined = {}
  /\ ret = NoReturn
  /\ outNonce = 0
  /\ thrown = "none"
  /\ setLog = <<>>
  /\ postHash = [k \in Workers |-> 0]
  /\ enc \in [pc : {"ready"}, host : Hosts, i : Words, dig : DigestBytes,
              msg : {<<>>}, trial : Words, derived : {<<>>}]
  /\ cbCount = 0
  /\ cbArg = NoCallback

NextEnc == EncodeCandidate \/ DeriveTrial

SpecEnc == InitEnc /\ [][NextEnc]_vars

(***************************************************************************)
(* Properties                                                              *)
(***************************************************************************)

Created == {k \in Workers : wpc[k] # "none"}

ExactCodes == (0..(TableSize - 1)) \cup {TopCode(d) : d \in 1..TopSize}

TookIdx == {j \in 1..Len(setLog) : setLog[j].took}

\* C1: once pow_args.result leaves NOT_READY, result and nonce never change;
\* exactly one set_result call takes effect, and pow() returns its value
\* (and its nonce on RESULT_OK).
C1_WriteOnce ==
  /\ [][result # RESULT_NOT_READY =>
          (result' = result /\ nonceShared' = nonceShared)]_vars
  /\ [](/\ Cardinality(TookIdx) <= 1
        /\ (pc = "done" /\ setLog # <<>> =>
              \E j \in TookIdx :
                 /\ ret = setLog[j].res
                 /\ (ret = RESULT_OK => outNonce = setLog[j].nonce)))

C1_Witness == pc = "done" /\ Len(setLog) >= 2

\* C2: whenever pow() returns RESULT_OK, the nonce written to *nonce has a
\* derived value <= target.
C2_FoundSatisfies ==
  (pc = "done" /\ ret = RESULT_OK /\ IsExact(outNonce)) =>
     ULe(DerivedValue(outNonce, digest), target)

\* C3: pow() returns RESULT_OVERFLOW only if no nonce in [0, max_nonce]
\* satisfies the target.
C3_OverflowMeansExhausted ==
  (pc = "done" /\ ret = RESULT_OVERFLOW) =>
     \A c \in ExactCodes :
        c <= MaxNonceEff => ~ULe(DerivedValue(c, digest), target)

\* C4 (as stated): with 64 zero bytes, maximal target, pool_size 4 and
\* max_nonce 1000, pow() returns RESULT_OK with nonce 0.
C4_E2ENonceZero ==
  (entry = "pow" /\ pc = "done" /\ failedAt = NoFail) =>
     (ret = RESULT_OK /\ outNonce = 0)

\* C5: under weak fairness of all threads every call of pow() returns.
C5_Terminates == <>(pc = "done")

\* C6: pow() returns one of 0, -1, -2, -3, never RESULT_NOT_READY; once all
\* launched workers are joined the shared result is terminal.
C6_NoPartialOutcome ==
  /\ (pc = "join" /\ spawnIdx = 0 /\ ret = NoReturn) => result # RESULT_NOT_READY
  /\ (pc = "done" /\ ret # NoReturn) =>
        ret \in {RESULT_OK, RESULT_OVERFLOW, RESULT_ERROR, RESULT_BAD_INPUT}

C6_Witness == pc = "done" /\ failedAt = 0 /\ ret = RESULT_ERROR

\* C7: pow() returns only after every worker it created has terminated and
\* been joined.
C7_JoinBeforeReturn ==
  pc = "done" => \A k \in Created : wpc[k] = "done" /\ k \in joined

C7_Witness == pc = "done" /\ Cardinality(Created) >= 2

\* C8: when pthread_create fails for worker j, set_result(RESULT_ERROR) does
\* not overwrite a terminal result, no further worker is created, exactly
\* workers 0..j-1 are joined, and pow() returns the resulting outcome.
C8_SpawnFailure ==
  /\ [][(pc = "spawn" /\ failedAt' # NoFail) =>
          /\ result' = (IF result = RESULT_NOT_READY THEN RESULT_ERROR
                                                      ELSE result)
          /\ nonceShared' = (IF result = RESULT_NOT_READY THEN 0
                                                           ELSE nonceShared)]_vars
  /\ [](failedAt # NoFail =>
          /\ Created = 0..(failedAt - 1)
          /\ (pc = "done" =>
                /\ joined = 0..(failedAt - 1)
                /\ ret = result
                /\ ret \in {RESULT_ERROR, RESULT_OK, RESULT_OVERFLOW}))

C8_Witness == pc = "done" /\ failedAt > 0 /\ ret # RESULT_ERROR

\* the pool_size the caller passed, hi * 2^32 + lo (the JS number for
\* PowAsync), is 0 or above MAX_POOL_SIZE
CallerPoolBad ==
  poolArg.hi > 0 \/ poolArg.lo = 0 \/ poolArg.lo > MAX_POOL_SIZE

\* C9: a pool_size of 0 or above 1024 as passed by the caller, or a digest
\* whose length is not 64, is rejected as BadInput (RESULT_BAD_INPUT from
\* pow(), "Bad input" from PowAsync) without creating a worker thread.
C9_BadInputRejected ==
  (pc = "done" /\ (CallerPoolBad \/ length # HASH_SIZE)) =>
     /\ Created = {}
     /\ (entry = "pow" => ret = RESULT_BAD_INPUT)
     /\ (entry = "powAsync" => thrown = "Bad input")

\* C10: after the result becomes terminal each worker hashes at most once
\* more, and under fairness every worker then terminates.
C10_BoundedCancellation ==
  /\ [](\A k \in Workers : postHash[k] <= 1)
  /\ ((result # RESULT_NOT_READY) ~> (\A k \in Workers : wpc[k] \in {"none", "done"}))

C12_Encoding ==
  enc.pc = "done" =>
     /\ enc.msg = enc.i \o enc.dig
     /\ Len(enc.msg) = HASH_SIZE + 8
     /\ enc.derived = enc.trial

\* C13: every PowAsync call with a callback invokes the callback exactly
\* once, also when the inputs are rejected or the digest copy fails.
C13_CallbackOnce ==
  /\ cbCount <= 1
  /\ (entry = "powAsync" /\ pc = "done") => cbCount = 1

\* Outcome of an asynchronous search in the status taxonomy of pow()
AsyncStatus ==
  IF thrown = "Bad input" THEN RESULT_BAD_INPUT
  ELSE IF thrown = "Internal error" THEN RESULT_ERROR
  ELSE ret

\* Handler arguments that keep the four status codes apart
ExpectedDelivery(st) ==
  IF st = RESULT_OK
    THEN [argc |-> 2, nonce |-> outNonce]
    ELSE [argc |-> 1,
          msg |-> IF st = RESULT_OVERFLOW THEN "Max safe integer overflow"
                  ELSE IF st = RESULT_ERROR THEN "Internal error"
                  ELSE "Bad input"]

\* C14: the handler receives the nonce on 0, an overflow error on -1, an
\* internal error on -2 and a bad-input error on -3, all distinct.
C14_AsyncTaxonomy ==
  (entry = "powAsync" /\ pc = "done") => cbArg = ExpectedDelivery(AsyncStatus)

\* C15: whenever pow() returns RESULT_OK the nonce is <= the effective
\* max_nonce (the caller's, or INT64_MAX when 0 is passed).
C15_NonceWithinBound ==
  (pc = "done" /\ ret = RESULT_OK) =>
     outNonce <= (IF maxNonceArg = 0 THEN INT64_MAX ELSE maxNonceArg)

C15_Witness ==
  pc = "done" /\ ret = RESULT_OK /\ maxNonceArg # 0 /\ outNonce = maxNonceArg

\* C16: every unsuccessful attempt strictly increases the worker's counter
\* (u64 arithmetic), so no worker tries a candidate twice.
C16_MonotoneCounter ==
  [][\A k \in Workers :
        (wpc[k] = "body" /\ wpc'[k] = "poll") => wi'[k] > wi[k]]_vars

\* A worker that would write the result in its next step: set_result with
\* RESULT_OVERFLOW or RESULT_OK while the result is still NOT_READY.
WouldWrite(j) ==
  /\ wpc[j] = "body"
  /\ result = RESULT_NOT_READY
  /\ (wi[j] > MaxNonceEff \/ TRUE \in Passes(host, argTarget, wi[j], digest))

\* C17: no worker reads the shared result outside the mutex while another
\* thread is about to write it: the poll of the loop condition takes no lock,
\* so a state with a poll and a concurrent write enabled is a racing access.
C17_NoUnlockedRead ==
  ~\E k, j \in Workers : k # j /\ wpc[k] = "poll" /\ WouldWrite(j)

\* C18: pow() writes *nonce only when it returns RESULT_OK.
C18_NonceFrame ==
  [][ret' # RESULT_OK => outNonce' = outNonce]_vars

C18_Witness ==
  pc = "done" /\ ret \in {RESULT_OVERFLOW, RESULT_ERROR, RESULT_BAD_INPUT}
  /\ outNonce = 7 /\ nonceShared # outNonce

====
